---- MODULE Spec2Model ----
(***************************************************************************)
(* apache_exporter: the scrape cycle of Exporter (apache_exporter.go).     *)
(*                                                                         *)
(* Text is modelled as a sequence of atoms.  An atom is one character     *)
(* (":", " ", "\n", a scoreboard symbol) or a word standing for a run of   *)
(* characters that contains no colon and no white space ("CPULoad", "512").*)
(* A sample sent to the metrics channel is a record [m, l, v]: the metric  *)
(* name, the value of its "state" label ("" for an unlabelled metric) and  *)
(* its value at the time of the send.  One send group (a const metric, or  *)
(* the Collect of a Gauge, Counter or GaugeVec) is a set of samples: a     *)
(* GaugeVec sends its children in map order, which Go leaves unspecified.  *)
(***************************************************************************)
EXTENDS Integers, Sequences, FiniteSets, TLC

\* ------------------------------------------------------------------ bounds

\* Collect calls made in one behaviour, all goroutines together.
MaxCycles == 3

\* ------------------------------------------------------------ the processes

\* Exporter instances (one per target) and the goroutines that call Collect.
Exporters == {"A", "B"}
Callers == {"g1", "g2", "g3"}

\* The instance a goroutine calls Collect on: g1 and g2 share one.
Target(c) == IF c = "g3" THEN "B" ELSE "A"

\* Target URIs: a server with ExtendedStatus On, one with ExtendedStatus Off,
\* and a string http.NewRequest rejects.
ExtendedURI == "http://localhost/server-status?auto"
BasicURI == "http://legacy/server-status?auto"
BadURI == "http://local host/%zz"
URIs == {ExtendedURI, BasicURI, BadURI}

\* ------------------------------------------------------------------- text

SP == " "
COLON == ":"
NL == "\n"
White == {" ", "\t", "\r", "\n"}

\* strings.TrimSpace
RECURSIVE TrimLeft(_)
TrimLeft(s) ==
  IF Len(s) > 0 /\ s[1] \in White THEN TrimLeft(Tail(s)) ELSE s

RECURSIVE TrimRight(_)
TrimRight(s) ==
  IF Len(s) > 0 /\ s[Len(s)] \in White
    THEN TrimRight(SubSeq(s, 1, Len(s) - 1))
    ELSE s

TrimSpace(s) == TrimRight(TrimLeft(s))

\* Index of the first atom of s equal to a, 0 when there is none.
RECURSIVE IndexFrom(_, _, _)
IndexFrom(s, a, i) ==
  IF i > Len(s) THEN 0
  ELSE IF s[i] = a THEN i
  ELSE IndexFrom(s, a, i + 1)

Index(s, a) == IndexFrom(s, a, 1)

\* strings.Split(s, sep): the pieces between the separators, empty ones kept:
\* with n separators there are n+1 pieces, the k-th from after the (k-1)-th
\* separator to before the k-th.
Split(s, sep) ==
  LET at == {i \in 1..Len(s) : s[i] = sep}
      nth(k) == CHOOSE i \in at : Cardinality({j \in at : j <= i}) = k
      n == Cardinality(at)
  IN  <<>> \o [k \in 1..(n + 1) |->
                 SubSeq(s, IF k = 1 THEN 1 ELSE nth(k - 1) + 1,
                           IF k = n + 1 THEN Len(s) ELSE nth(k) - 1)]

\* Mutation of splitkv: the string is split at its last colon.
splitkvLastColon(s) ==
  IF Len(s) = 0 THEN <<s, s>>
  ELSE LET at == {k \in 1..Len(s) : s[k] = COLON}
           i == IF at = {} THEN 0 ELSE CHOOSE k \in at : \A j \in at : j <= k
       IN  IF i = 0 THEN <<s, <<>>>>
           ELSE <<TrimSpace(SubSeq(s, 1, i - 1)),
                  TrimSpace(SubSeq(s, i + 1, Len(s)))>>

\* splitkv splits colon separated string into two fields
splitkv(s) ==
  IF Len(s) = 0 THEN <<s, s>>
  ELSE LET i == Index(s, COLON)
       IN  IF i = 0 THEN <<s, <<>>>>
           ELSE <<TrimSpace(SubSeq(s, 1, i - 1)),
                  TrimSpace(SubSeq(s, i + 1, Len(s)))>>

\* The decimal literals that occur in the status pages, with their values.
Literals ==
  [x \in {"0", "1", "2", "3", "5", "7", "512", "1000"} |->
     CASE x = "0" -> 0
       [] x = "1" -> 1
       [] x = "2" -> 2
       [] x = "3" -> 3
       [] x = "5" -> 5
       [] x = "7" -> 7
       [] x = "512" -> 512
       [] x = "1000" -> 1000]

\* strconv.ParseFloat(v, 64): the value of a literal, an error for any other
\* text (the empty string and text with a colon or a space included).
ParseFloat(v) ==
  IF Len(v) = 1 /\ v[1] \in DOMAIN Literals
    THEN [val |-> Literals[v[1]], err |-> FALSE]
    ELSE [val |-> 0, err |-> TRUE]

\* ---------------------------------------------------------------- metrics

\* prometheus.BuildFQName(namespace, "", name) and the Opts of NewExporter.
NameUp == "apache_up"
NameScrapeFailures == "apache_exporter_scrape_failures_total"
NameAccessesTotal == "apache_accesses_total"
NameBytesTotal == "apache_sent_bytes_total"
NameCpuload == "apache_cpuload"
NameUptime == "apache_uptime_seconds_total"
NameWorkers == "apache_workers"
NameScoreboard == "apache_scoreboard"
NameConnections == "apache_connections"

Sample(name, label, value) == [m |-> name, l |-> label, v |-> value]

\* prometheus.MustNewConstMetric(desc, _, value) sent to ch: one sample.
ConstMetric(name, value) == {Sample(name, "", value)}

\* A GaugeVec with the one label "state": its children, by label value.
EmptyVec == [x \in {} |-> 0]

\* vec.WithLabelValues(label): the child is created with value 0 if missing.
WithLabelValues(vec, label) ==
  IF label \in DOMAIN vec THEN vec ELSE vec @@ (label :> 0)

\* Mutation of VecSet: the child is added to (Add) instead of set.
VecAdd(vec, label, value) ==
  (label :> (IF label \in DOMAIN vec THEN vec[label] ELSE 0) + value) @@ vec

\* vec.WithLabelValues(label).Set(value)
VecSet(vec, label, value) == (label :> value) @@ vec

\* vec.WithLabelValues(label).Inc()
VecInc(vec, label) ==
  LET w == WithLabelValues(vec, label)
  IN  [w EXCEPT ![label] = @ + 1]

\* vec.Collect(ch): every child of the vector, one sample each.
VecCollect(name, vec) == {Sample(name, x, vec[x]) : x \in DOMAIN vec}

\* ------------------------------------------------------------- scoreboard

scoreboardLabelMap ==
  [x \in {"_", "S", "R", "W", "K", "D", "C", "L", "G", "I", "."} |->
     CASE x = "_" -> "idle"
       [] x = "S" -> "startup"
       [] x = "R" -> "read"
       [] x = "W" -> "reply"
       [] x = "K" -> "keepalive"
       [] x = "D" -> "dns"
       [] x = "C" -> "closing"
       [] x = "L" -> "logging"
       [] x = "G" -> "graceful_stop"
       [] x = "I" -> "idle_cleanup"
       [] x = "." -> "open_slot"]

\* vec.Reset(): every child is deleted.
VecReset(vec) == EmptyVec

\* The first loop of updateScoreboard: WithLabelValues(v) for every label of
\* the map, which creates the missing children at 0.
ScoreboardLabels(vec) ==
  LET fixed == {scoreboardLabelMap[k] : k \in DOMAIN scoreboardLabelMap}
  IN  vec @@ [x \in fixed |-> 0]

\* The second loop of updateScoreboard: one Inc per symbol. The vector after
\* an Inc is bound to w before the loop goes on with the rest of str.
RECURSIVE ScoreboardCount(_, _)
ScoreboardCount(vec, str) ==
  IF Len(str) = 0 THEN vec
  ELSE LET status == Head(str)
           label == IF status \in DOMAIN scoreboardLabelMap
                      THEN scoreboardLabelMap[status]
                      ELSE status
       IN  CHOOSE r \in {ScoreboardCount(w, rest) :
                           w \in {VecInc(vec, label)}, rest \in {Tail(str)}} : TRUE

\* updateScoreboard as it would be without the Reset.
updateScoreboardNoReset(vec, str) ==
  ScoreboardCount(ScoreboardLabels(vec), str)

\* updateScoreboard: the scoreboard vector after the call.
updateScoreboard(vec, str) ==
  ScoreboardCount(ScoreboardLabels(VecReset(vec)), str)

\* ------------------------------------------------------- one line of the body

KeyTotalAccesses == <<"Total", SP, "Accesses">>
KeyTotalKBytes == <<"Total", SP, "kBytes">>
KeyCPULoad == <<"CPULoad">>
KeyUptime == <<"Uptime">>
KeyBusyWorkers == <<"BusyWorkers">>
KeyIdleWorkers == <<"IdleWorkers">>
KeyScoreboard == <<"Scoreboard">>
KeyConnsTotal == <<"ConnsTotal">>
KeyConnsAsyncWriting == <<"ConnsAsyncWriting">>
KeyConnsAsyncKeepAlive == <<"ConnsAsyncKeepAlive">>
KeyConnsAsyncClosing == <<"ConnsAsyncClosing">>

\* The label a connection key sets.
ConnLabel(key) ==
  CASE key = KeyConnsTotal -> "total"
    [] key = KeyConnsAsyncWriting -> "writing"
    [] key = KeyConnsAsyncKeepAlive -> "keepalive"
    [] key = KeyConnsAsyncClosing -> "closing"

\* The metric fields of an Exporter that a line can change.
Fields(cpu, wrk, sb, conn) ==
  [cpuload |-> cpu, workers |-> wrk, scoreboard |-> sb, connections |-> conn]

\* What one pass of the loop body would do with a line that is not skipped:
\*   f the fields after it, sent the groups it sends to ch, in order,
\*   info whether it sets connectionInfo, err the inner err after the switch.
Step(f, sent, info, err) == [f |-> f, sent |-> sent, info |-> info, err |-> err]

\* Mutation of KBytesToBytes: the kilobyte count is sent as it is.
KBytesUnscaled(val) == val

\* "Total kBytes": the value sent is val*1024.
KBytesToBytes(val) == val * 1024

\* The switch over key of collect, with the inner err it leaves.
Switch(f, key, v) ==
  LET p == ParseFloat(v)
  IN  CASE key = KeyTotalAccesses ->
             IF p.err THEN Step(f, <<>>, FALSE, TRUE)
             ELSE Step(f, <<ConstMetric(NameAccessesTotal, p.val)>>, FALSE, FALSE)
        [] key = KeyTotalKBytes ->
             IF p.err THEN Step(f, <<>>, FALSE, TRUE)
             ELSE Step(f, <<ConstMetric(NameBytesTotal, KBytesToBytes(p.val))>>, FALSE, FALSE)
        [] key = KeyCPULoad ->
             IF p.err THEN Step(f, <<>>, FALSE, TRUE)
             ELSE Step([f EXCEPT !.cpuload = p.val], <<>>, FALSE, FALSE)
        [] key = KeyUptime ->
             IF p.err THEN Step(f, <<>>, FALSE, TRUE)
             ELSE Step(f, <<ConstMetric(NameUptime, p.val)>>, FALSE, FALSE)
        [] key = KeyBusyWorkers ->
             IF p.err THEN Step(f, <<>>, FALSE, TRUE)
             ELSE Step([f EXCEPT !.workers = VecSet(@, "busy", p.val)],
                       <<>>, FALSE, FALSE)
        [] key = KeyIdleWorkers ->
             IF p.err THEN Step(f, <<>>, FALSE, TRUE)
             ELSE Step([f EXCEPT !.workers = VecSet(@, "idle", p.val)],
                       <<>>, FALSE, FALSE)
        [] key = KeyScoreboard ->
             LET sb == updateScoreboard(f.scoreboard, v)
             IN  Step([f EXCEPT !.scoreboard = sb],
                      <<VecCollect(NameScoreboard, sb)>>, FALSE, FALSE)
        [] key \in {KeyConnsTotal, KeyConnsAsyncWriting,
                    KeyConnsAsyncKeepAlive, KeyConnsAsyncClosing} ->
             IF p.err THEN Step(f, <<>>, FALSE, TRUE)
             ELSE Step([f EXCEPT !.connections = VecSet(@, ConnLabel(key), p.val)],
                       <<>>, TRUE, FALSE)
        [] OTHER -> Step(f, <<>>, FALSE, FALSE)

\* One pass of the loop over lines: the line is split, and skipped when the
\* outer err (set by ioutil.ReadAll) is not nil.
LoopBody(f, l, outerErr) ==
  IF outerErr THEN Step(f, <<>>, FALSE, FALSE)
  ELSE CHOOSE r \in {Switch(f, kv[1], kv[2]) : kv \in {splitkv(l)}} : TRUE

\* ----------------------------------------------------------------- inputs

\* A status line "Key: value".
Line(key, val) == key \o <<COLON, SP>> \o val

\* mod_status ends every line of the page with a newline.
RECURSIVE Page(_)
Page(ls) == IF Len(ls) = 0 THEN <<>> ELSE Head(ls) \o <<NL>> \o Page(Tail(ls))

\* The lines of the status pages.
LAccesses == Line(KeyTotalAccesses, <<"1000">>)
LKBytes == Line(KeyTotalKBytes, <<"512">>)
LCPULoad == Line(KeyCPULoad, <<"1">>)
LCPULoadBad == Line(KeyCPULoad, <<"not-a-number">>)
LUptime == Line(KeyUptime, <<"7">>)
LUptimeBad == Line(KeyUptime, <<"1", COLON, "2">>)
LBusy == Line(KeyBusyWorkers, <<"3">>)
LIdle == Line(KeyIdleWorkers, <<"7">>)
LScoreboard == Line(KeyScoreboard, <<"_", "W", "X", "_">>)
LScoreboard2 == Line(KeyScoreboard, <<"W", ".">>)
LConnsTotal == Line(KeyConnsTotal, <<"5">>)
LConnsWriting == Line(KeyConnsAsyncWriting, <<"2">>)
LConnsKeepAlive == Line(KeyConnsAsyncKeepAlive, <<"1">>)
LConnsClosing == Line(KeyConnsAsyncClosing, <<"0">>)
LVersion == Line(<<"ServerVersion">>, <<"Apache/2.4">>)
LLower == Line(<<"busyworkers">>, <<"2">>)
LNote == Line(<<"Note">>, <<"BusyWorkers", COLON, SP, "3">>)
LSpaces == <<SP, SP>>
LHtml == <<"<html>">>

\* The pages of a server with ExtendedStatus On.
ExtendedPages ==
  { <<>>,
    Page(<<LAccesses, LKBytes, LBusy, LIdle>>),
    Page(<<LCPULoad, LScoreboard, LConnsTotal, LConnsWriting>>),
    Page(<<LConnsTotal>>),
    Page(<<LBusy>>),
    Page(<<LUptime, LScoreboard2>>),
    Page(<<LIdle, LConnsKeepAlive, LConnsClosing>>),
    Page(<<LAccesses, LCPULoadBad, LKBytes>>),
    Page(<<LBusy, LConnsTotal, LUptimeBad, LScoreboard>>),
    Page(<<LVersion, <<>>, LLower, LNote, LSpaces, LHtml, LUptime>>),
    Page(<<LScoreboard2, LUptime, LScoreboard2, LUptime>>) }

\* The pages of a server with ExtendedStatus Off.
BasicPages ==
  { Page(<<LBusy, LIdle, LScoreboard2>>),
    Page(<<LBusy>>) }

\* The body of an error reply, and a page cut short while it is read.
ErrorBody == <<"Service", SP, "Unavailable">>
CutPage == Page(<<LBusy>>) \o <<"IdleWo">>

\* The outcome of client.Do followed by ioutil.ReadAll: doErr, no response
\* arrived; otherwise the status code, the bytes read and whether reading the
\* body ended in an error.
Response(doErr, status, body, readErr) ==
  [doErr |-> doErr, status |-> status, body |-> body, readErr |-> readErr]

NoResponse == Response(FALSE, 0, <<>>, FALSE)

StatusOK == 200

\* What a request to the target may come back with.
Responses(u) ==
  IF u = ExtendedURI
    THEN {Response(TRUE, 0, <<>>, FALSE)}
           \cup {Response(FALSE, StatusOK, b, FALSE) : b \in ExtendedPages}
           \cup { Response(FALSE, StatusOK, CutPage, TRUE),
                  Response(FALSE, 503, ErrorBody, FALSE),
                  Response(FALSE, 503, CutPage, TRUE),
                  Response(FALSE, 206, Page(<<LBusy, LConnsTotal>>), FALSE) }
    ELSE {Response(TRUE, 0, <<>>, FALSE)}
           \cup {Response(FALSE, StatusOK, b, FALSE) : b \in BasicPages}
           \cup {Response(FALSE, 404, Page(<<LIdle>>), FALSE)}

\* ------------------------------------------------------------------ state

VARIABLES
  uri,             \* Exporter.URI
  mutex,           \* Exporter.Mutex: TRUE when locked
  scrapeFailures,  \* Exporter.scrapeFailures, the value of the counter
  cpuload,         \* Exporter.cpuload, the value of the gauge
  workers,         \* Exporter.workers
  scoreboard,      \* Exporter.scoreboard
  connections,     \* Exporter.connections
  pc,              \* where each goroutine is in Collect
  resp,            \* collect: the outcome of the fetch of this cycle
  lines,           \* collect: the lines the loop has not reached yet
  readErr,         \* collect: the outer err after ioutil.ReadAll
  connectionInfo,  \* collect: connectionInfo
  ret,             \* collect: the error it returns, "nil" for none
  out,             \* the groups this call of Collect has sent to ch, in order
  calls,           \* Collect calls made so far
  failedCycles,    \* history: the calls of Collect that returned after an error
  last             \* history: the fetch result and the samples of the cycle
                   \* of each exporter that returned last

exporterVars ==
  <<uri, mutex, scrapeFailures, cpuload, workers, scoreboard, connections>>
localVars == <<resp, lines, readErr, connectionInfo, ret, out>>
history == <<failedCycles, last>>
vars == <<exporterVars, pc, localVars, calls, history>>

\* NewExporter for every target, each exporter with a target of its own: A
\* the server with ExtendedStatus, B another one; no goroutine is in Collect.
Init ==
  /\ uri \in {f \in [Exporters -> URIs] : f["A"] = ExtendedURI /\ f["B"] # f["A"]}
  /\ mutex = [e \in Exporters |-> FALSE]
  /\ scrapeFailures = [e \in Exporters |-> 0]
  /\ cpuload = [e \in Exporters |-> 0]
  /\ workers = [e \in Exporters |-> EmptyVec]
  /\ scoreboard = [e \in Exporters |-> EmptyVec]
  /\ connections = [e \in Exporters |-> EmptyVec]
  /\ pc = [c \in Callers |-> "idle"]
  /\ resp = [c \in Callers |-> NoResponse]
  /\ lines = [c \in Callers |-> <<>>]
  /\ readErr = [c \in Callers |-> FALSE]
  /\ connectionInfo = [c \in Callers |-> FALSE]
  /\ ret = [c \in Callers |-> "nil"]
  /\ out = [c \in Callers |-> <<>>]
  /\ calls = 0
  /\ failedCycles = [e \in Exporters |-> 0]
  /\ last = [e \in Exporters |-> [resp |-> NoResponse, samples |-> {}]]

\* ---------------------------------------------------------------- actions

\* A goroutine of the registry calls e.Collect(ch) with a channel of its own.
Call(c) ==
  /\ pc[c] = "idle"
  /\ calls < MaxCycles
  /\ calls' = calls + 1
  /\ pc' = [pc EXCEPT ![c] = "Lock"]
  /\ UNCHANGED <<exporterVars, localVars, history>>

\* Lock as it would be if it did not wait for the mutex.
LockNoWait(c) ==
  /\ pc[c] = "Lock"
  /\ mutex' = [mutex EXCEPT ![Target(c)] = TRUE]
  /\ pc' = [pc EXCEPT ![c] = "NewRequest"]
  /\ UNCHANGED <<uri, scrapeFailures, cpuload, workers, scoreboard, connections,
                 localVars, calls, history>>

\* Mutation of Lock: one mutex for the whole process, held by every exporter.
LockShared(c) ==
  /\ pc[c] = "Lock"
  /\ \A e \in Exporters : ~mutex[e]
  /\ mutex' = [mutex EXCEPT ![Target(c)] = TRUE]
  /\ pc' = [pc EXCEPT ![c] = "NewRequest"]
  /\ UNCHANGED <<uri, scrapeFailures, cpuload, workers, scoreboard, connections,
                 localVars, calls, history>>

\* e.Lock(): blocks while the mutex is held.
Lock(c) ==
  /\ pc[c] = "Lock"
  /\ ~mutex[Target(c)]
  /\ mutex' = [mutex EXCEPT ![Target(c)] = TRUE]
  /\ pc' = [pc EXCEPT ![c] = "NewRequest"]
  /\ UNCHANGED <<uri, scrapeFailures, cpuload, workers, scoreboard, connections,
                 localVars, calls, history>>

\* http.NewRequest("GET", e.URI, nil): a URI that does not parse makes collect
\* return the error at once.
NewRequest(c) ==
  /\ pc[c] = "NewRequest"
  /\ IF uri[Target(c)] = BadURI
       THEN /\ ret' = [ret EXCEPT ![c] = "request"]
            /\ pc' = [pc EXCEPT ![c] = "Failed"]
       ELSE /\ ret' = ret
            /\ pc' = [pc EXCEPT ![c] = "Do"]
  /\ UNCHANGED <<exporterVars, resp, lines, readErr, connectionInfo, out, calls, history>>

\* Do as it would be if up were sent only when the request fails.
DoUpOnErrorOnly(c) ==
  /\ pc[c] = "Do"
  /\ \E r \in Responses(uri[Target(c)]) :
       /\ resp' = [resp EXCEPT ![c] = r]
       /\ IF r.doErr
            THEN /\ out' = [out EXCEPT ![c] = Append(@, ConstMetric(NameUp, 0))]
                 /\ ret' = [ret EXCEPT ![c] = "transport"]
                 /\ pc' = [pc EXCEPT ![c] = "Failed"]
            ELSE /\ out' = out
                 /\ ret' = ret
                 /\ pc' = [pc EXCEPT ![c] = "ReadAll"]
  /\ UNCHANGED <<exporterVars, lines, readErr, connectionInfo, calls, history>>

\* client.Do(req) and the up sample that follows it.
Do(c) ==
  /\ pc[c] = "Do"
  /\ \E r \in Responses(uri[Target(c)]) :
       /\ resp' = [resp EXCEPT ![c] = r]
       /\ IF r.doErr
            THEN /\ out' = [out EXCEPT ![c] = Append(@, ConstMetric(NameUp, 0))]
                 /\ ret' = [ret EXCEPT ![c] = "transport"]
                 /\ pc' = [pc EXCEPT ![c] = "Failed"]
            ELSE /\ out' = [out EXCEPT ![c] = Append(@, ConstMetric(NameUp, 1))]
                 /\ ret' = ret
                 /\ pc' = [pc EXCEPT ![c] = "ReadAll"]
  /\ UNCHANGED <<exporterVars, lines, readErr, connectionInfo, calls, history>>

\* ReadAll as it would be if only a status of 400 and above were an error.
ReadAllAccept2xx(c) ==
  /\ pc[c] = "ReadAll"
  /\ readErr' = [readErr EXCEPT ![c] = resp[c].readErr]
  /\ IF resp[c].status >= 400
       THEN /\ ret' = [ret EXCEPT ![c] = "status"]
            /\ pc' = [pc EXCEPT ![c] = "Failed"]
            /\ UNCHANGED <<lines, connectionInfo>>
       ELSE /\ lines' = [lines EXCEPT ![c] = Split(resp[c].body, NL)]
            /\ connectionInfo' = [connectionInfo EXCEPT ![c] = FALSE]
            /\ pc' = [pc EXCEPT ![c] = "Loop"]
            /\ ret' = ret
  /\ UNCHANGED <<exporterVars, resp, out, calls, history>>

\* ioutil.ReadAll(resp.Body), the status check and strings.Split.
ReadAll(c) ==
  /\ pc[c] = "ReadAll"
  /\ readErr' = [readErr EXCEPT ![c] = resp[c].readErr]
  /\ IF resp[c].status # StatusOK
       THEN /\ ret' = [ret EXCEPT ![c] = "status"]
            /\ pc' = [pc EXCEPT ![c] = "Failed"]
            /\ UNCHANGED <<lines, connectionInfo>>
       ELSE /\ lines' = [lines EXCEPT ![c] = Split(resp[c].body, NL)]
            /\ connectionInfo' = [connectionInfo EXCEPT ![c] = FALSE]
            /\ pc' = [pc EXCEPT ![c] = "Loop"]
            /\ ret' = ret
  /\ UNCHANGED <<exporterVars, resp, out, calls, history>>

\* The fields of an exporter, and the loop body applied to its next line.
FieldsOf(e) == Fields(cpuload[e], workers[e], scoreboard[e], connections[e])

\* ParseLine as it would be if a parse error moved on to the next line.
ParseLineNoAbort(c) ==
  /\ pc[c] = "Loop"
  /\ lines[c] # <<>>
  /\ \E e \in {Target(c)} :
     \E s \in {LoopBody(FieldsOf(e), Head(lines[c]), readErr[c])} :
         /\ cpuload' = [cpuload EXCEPT ![e] = s.f.cpuload]
         /\ workers' = [workers EXCEPT ![e] = s.f.workers]
         /\ scoreboard' = [scoreboard EXCEPT ![e] = s.f.scoreboard]
         /\ connections' = [connections EXCEPT ![e] = s.f.connections]
         /\ out' = [out EXCEPT ![c] = @ \o s.sent]
         /\ connectionInfo' = [connectionInfo EXCEPT ![c] = @ \/ s.info]
         /\ lines' = [lines EXCEPT ![c] = Tail(@)]
         /\ IF s.err /\ Len(lines[c]) = 1
              THEN /\ ret' = [ret EXCEPT ![c] = "parse"]
                   /\ pc' = [pc EXCEPT ![c] = "Failed"]
              ELSE /\ ret' = IF s.err THEN [ret EXCEPT ![c] = "parse"] ELSE ret
                   /\ pc' = pc
  /\ UNCHANGED <<uri, mutex, scrapeFailures, resp, readErr, calls, history>>

\* One pass of the loop over lines.
ParseLine(c) ==
  /\ pc[c] = "Loop"
  /\ lines[c] # <<>>
  /\ \E e \in {Target(c)} :
     \E s \in {LoopBody(FieldsOf(e), Head(lines[c]), readErr[c])} :
         /\ cpuload' = [cpuload EXCEPT ![e] = s.f.cpuload]
         /\ workers' = [workers EXCEPT ![e] = s.f.workers]
         /\ scoreboard' = [scoreboard EXCEPT ![e] = s.f.scoreboard]
         /\ connections' = [connections EXCEPT ![e] = s.f.connections]
         /\ out' = [out EXCEPT ![c] = @ \o s.sent]
         /\ connectionInfo' = [connectionInfo EXCEPT ![c] = @ \/ s.info]
         /\ lines' = [lines EXCEPT ![c] = Tail(@)]
         /\ IF s.err
              THEN /\ ret' = [ret EXCEPT ![c] = "parse"]
                   /\ pc' = [pc EXCEPT ![c] = "Failed"]
              ELSE /\ ret' = ret
                   /\ pc' = pc
  /\ UNCHANGED <<uri, mutex, scrapeFailures, resp, readErr, calls, history>>

\* After the loop: cpuload, workers and, if connectionInfo, connections are
\* collected, and collect returns nil.
Finish(c) ==
  /\ pc[c] = "Loop"
  /\ lines[c] = <<>>
  /\ LET e == Target(c)
     IN  out' = [out EXCEPT ![c] =
                   @ \o <<{Sample(NameCpuload, "", cpuload[e])},
                          VecCollect(NameWorkers, workers[e])>>
                     \o (IF connectionInfo[c]
                           THEN <<VecCollect(NameConnections, connections[e])>>
                           ELSE <<>>)]
  /\ pc' = [pc EXCEPT ![c] = "Unlock"]
  /\ UNCHANGED <<exporterVars, resp, lines, readErr, connectionInfo, ret, calls, history>>

\* Failed as it would be if the counter were collected but not incremented.
FailedNoInc(c) ==
  /\ pc[c] = "Failed"
  /\ out' = [out EXCEPT ![c] =
               Append(@, {Sample(NameScrapeFailures, "", scrapeFailures[Target(c)])})]
  /\ pc' = [pc EXCEPT ![c] = "Unlock"]
  /\ UNCHANGED <<exporterVars, resp, lines, readErr, connectionInfo, ret, calls,
                 history>>

\* Collect, when collect returned an error: it is logged, scrapeFailures is
\* incremented and collected.
Failed(c) ==
  /\ pc[c] = "Failed"
  /\ LET e == Target(c)
     IN  /\ scrapeFailures' = [scrapeFailures EXCEPT ![e] = @ + 1]
         /\ out' = [out EXCEPT ![c] =
                      Append(@, {Sample(NameScrapeFailures, "", scrapeFailures[e] + 1)})]
  /\ pc' = [pc EXCEPT ![c] = "Unlock"]
  /\ UNCHANGED <<uri, mutex, cpuload, workers, scoreboard, connections,
                 resp, lines, readErr, connectionInfo, ret, calls, history>>

\* Mutation of Unlock: Collect returns from inside the error branch, before
\* e.Unlock().
UnlockOnSuccessOnly(c) ==
  /\ pc[c] = "Unlock"
  /\ mutex' = [mutex EXCEPT ![Target(c)] = (ret[c] # "nil")]
  /\ pc' = [pc EXCEPT ![c] = "idle"]
  /\ resp' = [resp EXCEPT ![c] = NoResponse]
  /\ lines' = [lines EXCEPT ![c] = <<>>]
  /\ readErr' = [readErr EXCEPT ![c] = FALSE]
  /\ connectionInfo' = [connectionInfo EXCEPT ![c] = FALSE]
  /\ ret' = [ret EXCEPT ![c] = "nil"]
  /\ out' = [out EXCEPT ![c] = <<>>]
  /\ failedCycles' = [failedCycles EXCEPT ![Target(c)] =
                        IF ret[c] = "nil" THEN @ ELSE @ + 1]
  /\ last' = [last EXCEPT ![Target(c)] =
                [resp |-> resp[c],
                 samples |-> UNION {out[c][i] : i \in DOMAIN out[c]}]]
  /\ UNCHANGED <<uri, scrapeFailures, cpuload, workers, scoreboard, connections,
                 calls>>

\* e.Unlock() and the return of Collect: the locals of the call are gone.
Unlock(c) ==
  /\ pc[c] = "Unlock"
  /\ mutex' = [mutex EXCEPT ![Target(c)] = FALSE]
  /\ pc' = [pc EXCEPT ![c] = "idle"]
  /\ resp' = [resp EXCEPT ![c] = NoResponse]
  /\ lines' = [lines EXCEPT ![c] = <<>>]
  /\ readErr' = [readErr EXCEPT ![c] = FALSE]
  /\ connectionInfo' = [connectionInfo EXCEPT ![c] = FALSE]
  /\ ret' = [ret EXCEPT ![c] = "nil"]
  /\ out' = [out EXCEPT ![c] = <<>>]
  /\ failedCycles' = [failedCycles EXCEPT ![Target(c)] =
                        IF ret[c] = "nil" THEN @ ELSE @ + 1]
  /\ last' = [last EXCEPT ![Target(c)] =
                [resp |-> resp[c],
                 samples |-> UNION {out[c][i] : i \in DOMAIN out[c]}]]
  /\ UNCHANGED <<uri, scrapeFailures, cpuload, workers, scoreboard, connections,
                 calls>>

Next ==
  \E c \in Callers :
    \/ Call(c)
    \/ Lock(c)
    \/ NewRequest(c)
    \/ Do(c)
    \/ ReadAll(c)
    \/ ParseLine(c)
    \/ Finish(c)
    \/ Failed(c)
    \/ Unlock(c)

Spec == Init /\ [][Next]_vars

\* The steps of a goroutine that is inside Collect, after e.Lock() returned.
Running(c) ==
  NewRequest(c) \/ Do(c) \/ ReadAll(c) \/ ParseLine(c) \/ Finish(c)
    \/ Failed(c) \/ Unlock(c)

\* The steps of a goroutine that has called Collect.
InCollect(c) == Lock(c) \/ Running(c)

\* The fetch returns and the reader of ch keeps receiving, so a goroutine
\* inside Collect that can take its next step takes it, and a goroutine in
\* e.Lock() gets the mutex if it stays free. Nothing makes a caller call
\* Collect.
FairSpec == Spec /\ \A c \in Callers : WF_vars(InCollect(c))

\* ------------------------------------------------------------- properties

\* A goroutine between the return of e.Lock() and e.Unlock().
InCycle(c) == pc[c] \in {"NewRequest", "Do", "ReadAll", "Loop", "Failed", "Unlock"}

\* The state of an exporter that Collect can change.
ExporterState(e) ==
  <<scrapeFailures[e], cpuload[e], workers[e], scoreboard[e], connections[e]>>

\* The samples of a batch, and the groups of a metric in it.
SamplesOf(batch) == UNION {batch[i] : i \in DOMAIN batch}
Named(batch, name) == {x \in SamplesOf(batch) : x.m = name}
ContentNames ==
  {NameAccessesTotal, NameBytesTotal, NameCpuload, NameUptime, NameWorkers,
   NameScoreboard, NameConnections}
Content(batch) == {x \in SamplesOf(batch) : x.m \in ContentNames}

UpGroup(v) == {Sample(NameUp, "", v)}
FailuresGroup(v) == {Sample(NameScrapeFailures, "", v)}

\* C1, as a state predicate: of the goroutines that call Collect on one
\* exporter at most one is between Lock and Unlock, it holds the mutex, and
\* the others have sent nothing.
C1_OneCycle ==
  \A c \in Callers :
    /\ InCycle(c) => mutex[Target(c)]
    /\ ~InCycle(c) => out[c] = <<>>
    /\ \A d \in Callers \ {c} :
         Target(d) = Target(c) => ~(InCycle(c) /\ InCycle(d))

\* C1, as a step: a step that sends a sample for a goroutine or changes the
\* state of an exporter is a step of the one goroutine that is in its cycle on
\* that exporter; every other goroutine of the exporter stays where it is.
C1_StepOfHolder ==
  /\ \A c \in Callers :
       (out'[c] # out[c] /\ out'[c] # <<>>) => InCycle(c) /\ mutex[Target(c)]
  /\ \A e \in Exporters :
       ExporterState(e)' # ExporterState(e) =>
         \E c \in Callers :
           /\ Target(c) = e
           /\ InCycle(c)
           /\ \A d \in Callers \ {c} :
                Target(d) = e => pc'[d] = pc[d] /\ out'[d] = out[d]

\* C1: concurrent Collect calls on one exporter are serialized: at most one
\* cycle is between lock acquisition and release, and only that cycle sends
\* samples and changes the exporter, so the samples of two cycles never
\* interleave.
C1_Serialized == [](C1_OneCycle) /\ [][C1_StepOfHolder]_vars

\* C1 witness: a goroutine has sent samples in its cycle while the other
\* goroutine of the same exporter waits in e.Lock().
C1_Witness ==
  /\ pc["g1"] = "Loop" /\ Len(out["g1"]) >= 2
  /\ pc["g2"] = "Lock"

\* A transport failure: in the step of Collect that handles the error the
\* batch goes from the up sample alone to up=0 followed by the counter, whose
\* value is one more than it was; the batch such a cycle returns with has two
\* groups.
C2_Step(c) ==
  LET e == Target(c)
  IN  /\ (pc[c] = "Failed" /\ pc'[c] = "Unlock" /\ resp[c].doErr) =>
           /\ out[c] = <<UpGroup(0)>>
           /\ scrapeFailures'[e] = scrapeFailures[e] + 1
           /\ out'[c] = <<UpGroup(0), FailuresGroup(scrapeFailures[e] + 1)>>
      /\ (pc[c] = "Unlock" /\ pc'[c] = "idle" /\ resp[c].doErr) =>
           /\ Len(out[c]) = 2
           /\ out[c][1] = UpGroup(0)
           /\ out[c][2] = FailuresGroup(scrapeFailures[e])
           /\ Content(out[c]) = {}

\* C2: when client.Do fails, the cycle emits exactly up=0 and then the failure
\* counter at its previous value plus 1, and no content-derived sample.
C2_TransportFailure == [][\A c \in Callers : C2_Step(c)]_vars

\* C2 witness: a cycle whose request failed is about to return, on an exporter
\* that is fresh (counter 1) or that has failed before (counter 2).
C2_Witness ==
  /\ pc["g1"] = "Unlock" /\ resp["g1"].doErr /\ scrapeFailures["A"] = 2
  /\ pc["g3"] = "Unlock" /\ resp["g3"].doErr /\ scrapeFailures["B"] = 1

\* C3 (as claimed): every failed cycle, whatever the cause, emits both an up
\* sample and the failure-counter sample before Collect returns.
C3_Original ==
  \A c \in Callers :
    (pc[c] = "Unlock" /\ ret[c] # "nil") =>
      /\ Named(out[c], NameUp) # {}
      /\ Named(out[c], NameScrapeFailures) # {}

\* Groups of a batch by kind.
IsUp(g) == \E x \in g : x.m = NameUp
IsFailures(g) == \E x \in g : x.m = NameScrapeFailures
IsContent(g) == \E x \in g : x.m \in ContentNames

\* C4: in every batch the up sample precedes every content-derived sample;
\* the failure counter is sent only by a failed cycle, as the last group of
\* its batch, its value the incremented counter, while the mutex is held; and
\* a failed cycle does not reach Unlock without it.
C4_Order ==
  \A c \in Callers :
    /\ \A i \in DOMAIN out[c] :
         /\ IsContent(out[c][i]) => \E j \in 1..(i - 1) : IsUp(out[c][j])
         /\ IsFailures(out[c][i]) =>
              /\ i = Len(out[c])
              /\ pc[c] = "Unlock" /\ ret[c] # "nil"
              /\ mutex[Target(c)]
              /\ out[c][i] = FailuresGroup(scrapeFailures[Target(c)])
              /\ scrapeFailures[Target(c)] = failedCycles[Target(c)] + 1
    /\ (pc[c] = "Unlock" /\ ret[c] # "nil") =>
         out[c] # <<>> /\ IsFailures(out[c][Len(out[c])])

\* C4 witness: a cycle that failed on a parse error after it had sent
\* content-derived samples holds the failure counter as its last group.
C4_Witness ==
  \E c \in Callers :
    /\ pc[c] = "Unlock" /\ ret[c] = "parse"
    /\ Len(out[c]) >= 3
    /\ IsUp(out[c][1]) /\ IsContent(out[c][2]) /\ IsFailures(out[c][Len(out[c])])

\* A response with a status other than 200 has arrived in the cycle of c.
NonOK(c) ==
  /\ pc[c] \in {"ReadAll", "Failed", "Unlock"}
  /\ resp[c] # NoResponse /\ ~resp[c].doErr
  /\ resp[c].status # StatusOK

\* The gauges and vectors of an exporter, which only a parsed line changes.
Gauges(e) == <<cpuload[e], workers[e], scoreboard[e], connections[e]>>

\* A cycle with a status other than 200: no step of it changes a gauge or a
\* vector or splits the body; the step that handles the error finds up=1
\* alone in the batch and adds the counter, one more than it was; the batch
\* the cycle returns with has these two groups.
C5_Step(c) ==
  LET e == Target(c)
  IN  NonOK(c) =>
        /\ Gauges(e)' = Gauges(e)
        /\ lines[c] = <<>>
        /\ pc'[c] # "Loop"
        /\ (pc[c] = "Failed" /\ pc'[c] = "Unlock") =>
             /\ out[c] = <<UpGroup(1)>>
             /\ scrapeFailures'[e] = scrapeFailures[e] + 1
             /\ out'[c] = <<UpGroup(1), FailuresGroup(scrapeFailures[e] + 1)>>
        /\ (pc[c] = "Unlock" /\ pc'[c] = "idle") =>
             /\ out[c] = <<UpGroup(1), FailuresGroup(scrapeFailures[e])>>
             /\ scrapeFailures[e] = failedCycles[e] + 1

\* C5: a response whose status is not exactly 200 gives up=1, no parsed line
\* and no content-derived sample, and the failure counter incremented by
\* exactly 1 and emitted, whatever the status and the body.
C5_NonOKStatus == [][\A c \in Callers : C5_Step(c)]_vars

\* C5 witness: a cycle that got status 206 with a well-formed status page as
\* its body is about to return.
C5_Witness ==
  \E c \in Callers :
    /\ pc[c] = "Unlock" /\ NonOK(c)
    /\ resp[c].status = 206
    /\ resp[c].body = Page(<<LBusy, LConnsTotal>>)

\* The decode table of the scoreboard as the specification gives it, a symbol
\* outside the table being its own category.
FixedCategories ==
  {"idle", "startup", "read", "reply", "keepalive", "dns", "closing", "logging",
   "graceful_stop", "idle_cleanup", "open_slot"}
Decode(symbol) ==
  CASE symbol = "_" -> "idle"
    [] symbol = "S" -> "startup"
    [] symbol = "R" -> "read"
    [] symbol = "W" -> "reply"
    [] symbol = "K" -> "keepalive"
    [] symbol = "D" -> "dns"
    [] symbol = "C" -> "closing"
    [] symbol = "L" -> "logging"
    [] symbol = "G" -> "graceful_stop"
    [] symbol = "I" -> "idle_cleanup"
    [] symbol = "." -> "open_slot"
    [] OTHER -> symbol

\* The tally of a scoreboard string: every fixed category and every category
\* that occurs, each with its number of occurrences.
Tally(str) ==
  [cat \in FixedCategories \cup {Decode(str[i]) : i \in DOMAIN str} |->
     Cardinality({i \in DOMAIN str : Decode(str[i]) = cat})]
TallySamples(str) ==
  {Sample(NameScoreboard, cat, Tally(str)[cat]) : cat \in DOMAIN Tally(str)}

\* The lines of the body of the cycle of c, with their keys and values.
BodyLines(c) == Split(resp[c].body, NL)
KeyOf(l) == splitkv(l)[1]
ValueOf(l) == splitkv(l)[2]
NumericKeys ==
  {KeyTotalAccesses, KeyTotalKBytes, KeyCPULoad, KeyUptime, KeyBusyWorkers,
   KeyIdleWorkers, KeyConnsTotal, KeyConnsAsyncWriting, KeyConnsAsyncKeepAlive,
   KeyConnsAsyncClosing}
Number(l) == ParseFloat(ValueOf(l)).val

\* A line with a recognized numeric key whose value is not a number, and the
\* index of the first such line (0 if there is none).
BadLine(l) == KeyOf(l) \in NumericKeys /\ ParseFloat(ValueOf(l)).err
FirstBad(ls) ==
  IF \E i \in DOMAIN ls : BadLine(ls[i])
    THEN CHOOSE i \in DOMAIN ls :
           BadLine(ls[i]) /\ \A j \in 1..(i - 1) : ~BadLine(ls[j])
    ELSE 0

\* The cycle of c is over, and its fetch returned status 200 with a body.
Done200(c) ==
  /\ pc[c] = "Unlock"
  /\ resp[c] # NoResponse /\ ~resp[c].doErr
  /\ resp[c].status = StatusOK

\* The samples the table of the specification gives a valid line.
TableSamples(l) ==
  LET k == KeyOf(l)
  IN  CASE k = KeyTotalAccesses -> {Sample(NameAccessesTotal, "", Number(l))}
        [] k = KeyTotalKBytes -> {Sample(NameBytesTotal, "", Number(l) * 1024)}
        [] k = KeyCPULoad -> {Sample(NameCpuload, "", Number(l))}
        [] k = KeyUptime -> {Sample(NameUptime, "", Number(l))}
        [] k = KeyBusyWorkers -> {Sample(NameWorkers, "busy", Number(l))}
        [] k = KeyIdleWorkers -> {Sample(NameWorkers, "idle", Number(l))}
        [] k = KeyScoreboard -> TallySamples(ValueOf(l))
        [] k = KeyConnsTotal -> {Sample(NameConnections, "total", Number(l))}
        [] k = KeyConnsAsyncWriting -> {Sample(NameConnections, "writing", Number(l))}
        [] k = KeyConnsAsyncKeepAlive ->
             {Sample(NameConnections, "keepalive", Number(l))}
        [] k = KeyConnsAsyncClosing -> {Sample(NameConnections, "closing", Number(l))}
        [] OTHER -> {}

\* The keys whose samples are sent when their line is parsed.
DirectKeys == {KeyTotalAccesses, KeyTotalKBytes, KeyUptime, KeyScoreboard}

\* The groups sent for the first n lines of ls, in order: one per line with a
\* key of DirectKeys.
RECURSIVE DirectGroups(_, _)
DirectGroups(ls, n) ==
  IF n = 0 THEN <<>>
  ELSE DirectGroups(ls, n - 1)
         \o (IF KeyOf(ls[n]) \in DirectKeys THEN <<TableSamples(ls[n])>> ELSE <<>>)

\* C6 (as claimed, for a body read without error): a status-200 body with a
\* recognized numeric key whose value is not a number stops the parse at that
\* line: the samples of every valid
\* recognized line before it are emitted, no later line is processed, the
\* error is reported and the failure counter increments by exactly 1.
C6_Original ==
  \A c \in Callers :
    LET ls == BodyLines(c)
        k == FirstBad(ls)
        e == Target(c)
    IN  (Done200(c) /\ ~resp[c].readErr /\ k > 0) =>
          /\ ret[c] = "parse"
          /\ \A i \in 1..(k - 1) : TableSamples(ls[i]) \subseteq SamplesOf(out[c])
          /\ lines[c] = SubSeq(ls, k + 1, Len(ls))
          /\ scrapeFailures[e] = failedCycles[e] + 1
          /\ out[c][Len(out[c])] = FailuresGroup(scrapeFailures[e])

\* C6 (amended): such a body, read without error, stops the parse at that
\* line: the batch is up=1, then the samples of the valid Total Accesses,
\* Total kBytes, Uptime and Scoreboard lines before it, in the order of the
\* lines, then the failure counter, incremented by exactly 1; the cpuload,
\* workers and connections samples of the lines before it are not emitted;
\* no later line is processed.
C6_ParseError ==
  \A c \in Callers :
    LET ls == BodyLines(c)
        k == FirstBad(ls)
        e == Target(c)
    IN  (Done200(c) /\ ~resp[c].readErr /\ k > 0) =>
          /\ ret[c] = "parse"
          /\ lines[c] = SubSeq(ls, k + 1, Len(ls))
          /\ scrapeFailures[e] = failedCycles[e] + 1
          /\ out[c] = <<UpGroup(1)>> \o DirectGroups(ls, k - 1)
                        \o <<FailuresGroup(scrapeFailures[e])>>

\* C6 witness: a cycle stopped at the bad line of a body that has valid lines
\* before it (one of them sent a sample) and a recognized line after it.
C6_Witness ==
  \E c \in Callers :
    /\ Done200(c) /\ ret[c] = "parse"
    /\ resp[c].body = Page(<<LAccesses, LCPULoadBad, LKBytes>>)
    /\ Len(out[c]) = 3
    /\ lines[c] = <<LKBytes, <<>>>>

\* The counter of every exporter is the number of its cycles that returned
\* after an error, plus one for a failed cycle that has incremented it and
\* not returned yet.
C7_Counts ==
  \A e \in Exporters :
    scrapeFailures[e] =
      failedCycles[e]
        + Cardinality({c \in Callers :
                         Target(c) = e /\ pc[c] = "Unlock" /\ ret[c] # "nil"})

\* The counter is never decreased or reset, and a step adds at most 1.
C7_Monotonic ==
  \A e \in Exporters :
    scrapeFailures'[e] = scrapeFailures[e] \/ scrapeFailures'[e] = scrapeFailures[e] + 1

\* C7: the failure counter of an exporter equals the number of its completed
\* failed cycles: plus 1 per failed cycle, unchanged by a successful one,
\* never decreased or reset, no increment lost when calls overlap.
C7_FailureCounter == [](C7_Counts) /\ [][C7_Monotonic]_vars

\* C7 witness: three cycles of exporter A are over (B, whose URI is rejected,
\* has run none): two failed, one succeeded, and the counter is 2.
C7_Witness ==
  /\ calls = 3 /\ \A c \in Callers : pc[c] = "idle"
  /\ uri["B"] = BadURI /\ failedCycles["B"] = 0
  /\ failedCycles["A"] = 2 /\ scrapeFailures["A"] = 2

\* The connection keys, and the lines of a body that carry one.
ConnKeys ==
  {KeyConnsTotal, KeyConnsAsyncWriting, KeyConnsAsyncKeepAlive, KeyConnsAsyncClosing}
ConnLines(ls) == {i \in DOMAIN ls : KeyOf(ls[i]) \in ConnKeys}

\* C8 (as claimed): in every cycle, whatever cycles ran before it, a body with
\* none of the four connection keys emits no connection sample, and a body
\* whose only connection key is "ConnsTotal: 5" emits exactly one, total=5.
C8_Original ==
  \A c \in Callers :
    LET ls == BodyLines(c)
    IN  (Done200(c) /\ ~resp[c].readErr /\ ret[c] = "nil") =>
          /\ ConnLines(ls) = {} => Named(out[c], NameConnections) = {}
          /\ (ConnLines(ls) # {} /\ \A i \in ConnLines(ls) : ls[i] = LConnsTotal) =>
               Named(out[c], NameConnections) = {Sample(NameConnections, "total", 5)}

\* The scoreboard groups of a batch, and the tallies of the Scoreboard lines
\* among the first n lines of ls, both in order.
ScoreboardGroups(batch) == SelectSeq(batch, LAMBDA g : \E x \in g : x.m = NameScoreboard)
RECURSIVE ScoreboardTallies(_, _)
ScoreboardTallies(ls, n) ==
  IF n = 0 THEN <<>>
  ELSE ScoreboardTallies(ls, n - 1)
         \o (IF KeyOf(ls[n]) = KeyScoreboard
               THEN <<TallySamples(ValueOf(ls[n]))>> ELSE <<>>)

\* The sum of the values of a set of samples.
RECURSIVE SumOf(_)
SumOf(g) ==
  IF g = {} THEN 0
  ELSE LET x == CHOOSE y \in g : TRUE IN x.v + SumOf(g \ {x})

\* C9: the scoreboard samples a cycle emits for a scoreboard string S are the
\* tally of S alone: the counts sum to the length of S, each of the 11 fixed
\* categories is present, each symbol outside the table is a category of its
\* own with its number of occurrences, and nothing of an earlier scoreboard
\* remains.
C9_Scoreboard ==
  \A c \in Callers :
    LET ls == BodyLines(c)
        n == Len(ls) - Len(lines[c])
        groups == ScoreboardGroups(out[c])
    IN  (pc[c] \in {"Loop", "Failed", "Unlock"} /\ resp[c].status = StatusOK
           /\ ~resp[c].doErr /\ ~resp[c].readErr) =>
          /\ groups = ScoreboardTallies(ls, n)
          /\ \A i \in 1..n :
               KeyOf(ls[i]) = KeyScoreboard =>
                 \E j \in DOMAIN groups :
                   /\ SumOf(groups[j]) = Len(ValueOf(ls[i]))
                   /\ \A cat \in FixedCategories : \E x \in groups[j] : x.l = cat
                   /\ \A x \in groups[j] :
                        x.l \in FixedCategories
                          \/ \E k \in DOMAIN ValueOf(ls[i]) : ValueOf(ls[i])[k] = x.l

\* C9 witness: the scoreboard "W." has been tallied on an exporter whose
\* earlier cycle tallied "_WX_" (the one page that sets the writing
\* connections), and the group sent has neither X nor the old counts.
C9_Witness ==
  \E c \in Callers :
    /\ pc[c] = "Unlock" /\ ret[c] = "nil"
    /\ resp[c].body = Page(<<LUptime, LScoreboard2>>)
    /\ "writing" \in DOMAIN connections[Target(c)]
    /\ ScoreboardGroups(out[c]) = <<TallySamples(<<"W", ".">>)>>
    /\ Sample(NameScoreboard, "open_slot", 1) \in SamplesOf(out[c])

\* C10 (as claimed): apart from the failure counter, the samples of a cycle
\* depend only on its fetch result: two cycles that got the same response emit
\* the same up and content-derived samples, whatever ran before them.
C10_Original ==
  \A c \in Callers : \A d \in Callers \ {c} :
    (pc[c] = "Unlock" /\ pc[d] = "Unlock" /\ resp[c] = resp[d]) =>
      /\ Named(out[c], NameUp) = Named(out[d], NameUp)
      /\ Content(out[c]) = Content(out[d])

\* ---------------------------------------------------------------- C11

\* The cycle of c has run to its end and the cycle that returned before it on
\* the same exporter got a response with the same status and the same body.
Repeated(c) ==
  /\ pc[c] = "Unlock"
  /\ resp[c] # NoResponse /\ ~resp[c].doErr
  /\ last[Target(c)].resp # NoResponse /\ ~last[Target(c)].resp.doErr
  /\ resp[c].status = last[Target(c)].resp.status
  /\ resp[c].body = last[Target(c)].resp.body
  /\ resp[c].readErr = last[Target(c)].resp.readErr

\* C11 (as claimed): two successive cycles of one exporter that got the same
\* status and the same body emit identical sample sets: the same metrics,
\* labels and values.
C11_Original ==
  \A c \in Callers :
    Repeated(c) => SamplesOf(out[c]) = last[Target(c)].samples

NotFailures(samples) == {x \in samples : x.m # NameScrapeFailures}

\* C11: two successive cycles of one exporter that got the same status and the
\* same body emit the same samples apart from the failure counter; both fail
\* or both succeed, and when they fail the second cycle's failure-counter
\* sample is greater by one than the first's.
C11_Idempotent ==
  \A c \in Callers :
    Repeated(c) =>
      LET e == Target(c)
          before == last[e].samples
          now == SamplesOf(out[c])
      IN  /\ NotFailures(now) = NotFailures(before)
          /\ IF ret[c] = "nil"
               THEN now = before
               ELSE /\ now \ NotFailures(now) = FailuresGroup(scrapeFailures[e])
                    /\ before \ NotFailures(before) =
                         FailuresGroup(scrapeFailures[e] - 1)

\* C11 witness: the second of two failing cycles on the same page with a bad
\* CPULoad value has run; the accesses sample is in both batches, the failure
\* counter is 1 in the first and 2 in the second.
C11_Witness ==
  \E c \in Callers :
    /\ Repeated(c) /\ ret[c] = "parse"
    /\ resp[c].body = Page(<<LAccesses, LCPULoadBad, LKBytes>>)
    /\ Sample(NameAccessesTotal, "", 1000) \in SamplesOf(out[c])
    /\ Sample(NameAccessesTotal, "", 1000) \in last[Target(c)].samples
    /\ FailuresGroup(1) \subseteq last[Target(c)].samples
    /\ FailuresGroup(2) \subseteq SamplesOf(out[c])

\* ---------------------------------------------------------------- C12

\* The lines of ls with the given key.
LinesWith(ls, key) == {i \in DOMAIN ls : KeyOf(ls[i]) = key}

\* The body of c's response was read whole and is well-formed: every numeric
\* key has a number as its value.
WellFormed(c) ==
  /\ Done200(c) /\ ~resp[c].readErr
  /\ \A i \in DOMAIN BodyLines(c) : ~BadLine(BodyLines(c)[i])

\* C12 (as claimed): in every cycle whose status-200 body is well-formed and
\* has a line "BusyWorkers: N", the workers sample with state "busy" has the
\* value N, and a workers sample with state "idle" is either absent or has
\* the value of the IdleWorkers line of that same body.
C12_Original ==
  \A c \in Callers :
    LET ls == BodyLines(c)
        workersOut == Named(out[c], NameWorkers)
    IN  (WellFormed(c) /\ LinesWith(ls, KeyBusyWorkers) # {}) =>
          /\ \E i \in LinesWith(ls, KeyBusyWorkers) :
               Sample(NameWorkers, "busy", Number(ls[i])) \in workersOut
          /\ \A x \in workersOut :
               x.l = "idle" =>
                 \E i \in LinesWith(ls, KeyIdleWorkers) : x.v = Number(ls[i])

\* ---------------------------------------------------------------- C13

\* Every numeric key is on at most one line of ls.
AtMostOnce(ls) ==
  \A i \in DOMAIN ls : \A j \in DOMAIN ls :
    (KeyOf(ls[i]) \in NumericKeys /\ KeyOf(ls[i]) = KeyOf(ls[j])) => i = j

\* C13: a status-200 body, read whole, in which every recognized numeric key
\* is on at most one line and has a number as its value makes the cycle
\* succeed: up=1 is sent first, the failure counter is neither incremented
\* nor sent, and for each key present the batch has exactly one sample of the
\* key's metric and label, with the parsed value (Total kBytes times 1024);
\* without a Conns* line no connections sample is sent and without a
\* Scoreboard line no scoreboard sample.
C13_KeyedSamples ==
  \A c \in Callers :
    LET ls == BodyLines(c)
        e == Target(c)
    IN  (WellFormed(c) /\ AtMostOnce(ls)) =>
          /\ ret[c] = "nil"
          /\ out[c] # <<>> /\ out[c][1] = UpGroup(1)
          /\ Named(out[c], NameScrapeFailures) = {}
          /\ scrapeFailures[e] = failedCycles[e]
          /\ \A i \in DOMAIN ls :
               KeyOf(ls[i]) \in NumericKeys =>
                 \E x \in TableSamples(ls[i]) :
                   {y \in SamplesOf(out[c]) : y.m = x.m /\ y.l = x.l} = {x}
          /\ ConnLines(ls) = {} => Named(out[c], NameConnections) = {}
          /\ LinesWith(ls, KeyScoreboard) = {} => Named(out[c], NameScoreboard) = {}

\* C13 witness: the page with Total Accesses 1000, Total kBytes 512,
\* BusyWorkers 3 and IdleWorkers 7 has been parsed on an exporter that had
\* tallied a scoreboard and set connections before; the batch has
\* accesses_total=1000, sent_bytes_total=524288, busy=3, idle=7.
C13_Witness ==
  \E c \in Callers :
    /\ WellFormed(c)
    /\ resp[c].body = Page(<<LAccesses, LKBytes, LBusy, LIdle>>)
    /\ connections[Target(c)] # EmptyVec /\ scoreboard[Target(c)] # EmptyVec
    /\ { Sample(NameAccessesTotal, "", 1000), Sample(NameBytesTotal, "", 524288),
         Sample(NameWorkers, "busy", 3), Sample(NameWorkers, "idle", 7) }
         \subseteq SamplesOf(out[c])
    /\ Named(out[c], NameConnections) = {} /\ Named(out[c], NameScoreboard) = {}

\* ---------------------------------------------------------------- C14

\* The metrics the README marks as available only with ExtendedStatus, by the
\* key of the status page each is read from.
ExtendedStatusMetric ==
  [k \in {KeyTotalAccesses, KeyTotalKBytes, KeyCPULoad, KeyUptime} |->
     CASE k = KeyTotalAccesses -> NameAccessesTotal
       [] k = KeyTotalKBytes -> NameBytesTotal
       [] k = KeyCPULoad -> NameCpuload
       [] k = KeyUptime -> NameUptime]

\* C14 (as claimed): a successful cycle emits a sample of accesses_total,
\* sent_bytes_total, cpuload or uptime_seconds_total only if its body has a
\* line with the corresponding key; a body without CPULoad gives no cpuload
\* sample.
C14_Original ==
  \A c \in Callers :
    (Done200(c) /\ ret[c] = "nil") =>
      \A k \in DOMAIN ExtendedStatusMetric :
        Named(out[c], ExtendedStatusMetric[k]) # {} =>
          LinesWith(BodyLines(c), k) # {}

\* ---------------------------------------------------------------- C15

\* No goroutine is inside Collect on exporter e.
NoneInCycle(e) == \A c \in Callers : Target(c) = e => ~InCycle(c)

\* C15: the mutex of an exporter is free whenever no Collect call on it is
\* between e.Lock() and e.Unlock(), whichever way the cycle ended; and, with
\* the fetch returning and the samples being received, no caller stays in
\* e.Lock() for ever and no caller stays inside Collect for ever: a caller
\* that waits for the mutex gets it, and returns from Collect.
C15_LockReleased ==
  /\ [](\A e \in Exporters : NoneInCycle(e) => ~mutex[e])
  /\ \A c \in Callers : []<>(pc[c] # "Lock")
  /\ \A c \in Callers : []<>(pc[c] = "idle")

\* C15 witness: a cycle that failed with a parse error has returned, the
\* mutex is free again, and a caller that was waiting is still at e.Lock().
C15_Witness ==
  \E c \in Callers :
    /\ pc[c] = "Lock" /\ ~mutex[Target(c)]
    /\ NoneInCycle(Target(c))
    /\ last[Target(c)].resp.status = StatusOK
    /\ failedCycles[Target(c)] = 1

\* ---------------------------------------------------------------- C16

\* C16 (as claimed): a failure while the body is read, after the response
\* headers arrived, is handled like a transport error before the response:
\* the cycle fails, the failure counter is incremented and sent, and nothing
\* of the partial body is parsed into samples, whatever the status.
C16_Original ==
  \A c \in Callers :
    (pc[c] = "Unlock" /\ resp[c] # NoResponse /\ ~resp[c].doErr
       /\ resp[c].readErr) =>
      /\ ret[c] # "nil"
      /\ scrapeFailures[Target(c)] = failedCycles[Target(c)] + 1
      /\ FailuresGroup(scrapeFailures[Target(c)]) \in
           {out[c][i] : i \in DOMAIN out[c]}
      /\ Content(out[c]) = {}

\* ---------------------------------------------------------------- C17

\* The key of a line as the claim reads it: the text before the first colon
\* (the whole line when it has no colon), trimmed; and the text after the
\* first colon, trimmed.
ClaimKey(l) ==
  TrimSpace(IF Index(l, COLON) = 0 THEN l ELSE SubSeq(l, 1, Index(l, COLON) - 1))
AfterColon(l) == TrimSpace(SubSeq(l, Index(l, COLON) + 1, Len(l)))
RecognizedKeys == NumericKeys \cup {KeyScoreboard}

\* A line that is blank or whose key is not exactly a recognized key.
Ignorable(l) == ClaimKey(l) \notin RecognizedKeys

\* The loop of collect over the lines ls from the fields f: the fields after
\* it, the groups sent, connectionInfo and whether it stopped with an error.
RECURSIVE RunLoop(_, _, _, _)
RunLoop(f, sent, info, ls) ==
  IF ls = <<>> THEN [f |-> f, sent |-> sent, info |-> info, failed |-> FALSE]
  ELSE LET st == LoopBody(f, Head(ls), FALSE)
       IN  IF st.err
             THEN [f |-> st.f, sent |-> sent \o st.sent, info |-> info \/ st.info,
                   failed |-> TRUE]
             ELSE RunLoop(st.f, sent \o st.sent, info \/ st.info, Tail(ls))

\* ls without its ignorable lines.
Strip(ls) == SelectSeq(ls, LAMBDA l : ~Ignorable(l))

\* A pass of the loop of c over the first of its lines.
LineStep(c) ==
  pc[c] = "Loop" /\ lines[c] # <<>> /\ lines'[c] = Tail(lines[c])

\* C17, one pass: a pass over an ignorable line changes neither the exporter
\* nor the batch nor the outcome of the cycle; a pass over a line with a
\* numeric key and a colon fails exactly when the text after the first colon
\* is not a number.
C17_Step(c) ==
  LineStep(c) =>
    LET l == Head(lines[c])
        e == Target(c)
    IN  /\ Ignorable(l) =>
             /\ ExporterState(e)' = ExporterState(e)
             /\ out'[c] = out[c] /\ connectionInfo'[c] = connectionInfo[c]
             /\ ret'[c] = ret[c] /\ pc'[c] = "Loop"
        /\ (~readErr[c] /\ Index(l, COLON) # 0 /\ ClaimKey(l) \in NumericKeys) =>
             ((ret'[c] = "parse") <=> ParseFloat(AfterColon(l)).err)

\* C17, the whole body: when a status-200 body has been read, the loop over
\* its lines and the loop over its lines without the ignorable ones end with
\* the same fields, the same groups sent and the same outcome.
C17_Body ==
  \A c \in Callers :
    (pc[c] = "Loop" /\ ~readErr[c] /\ lines[c] = BodyLines(c)) =>
      RunLoop(FieldsOf(Target(c)), <<>>, FALSE, lines[c])
        = RunLoop(FieldsOf(Target(c)), <<>>, FALSE, Strip(lines[c]))

\* C17: lines that are blank or whose key is not exactly one of the
\* recognized keys have no effect on the samples, the outcome and the state
\* of the exporter, and the value of a recognized line is all the text after
\* its first colon.
C17_IgnoredLines == [](C17_Body) /\ [][\A c \in Callers : C17_Step(c)]_vars

\* C17 witness: the page with a ServerVersion line, an empty line, a
\* lower-case "busyworkers: 2", "Note: BusyWorkers: 3", a line of spaces, a
\* line without colon and "Uptime: 7" has been parsed on an exporter that had
\* no workers: the batch has the uptime sample and no workers sample.
C17_Witness ==
  \E c \in Callers :
    /\ Done200(c) /\ ret[c] = "nil"
    /\ resp[c].body = Page(<<LVersion, <<>>, LLower, LNote, LSpaces, LHtml, LUptime>>)
    /\ Strip(BodyLines(c)) = <<LUptime>>
    /\ Sample(NameUptime, "", 7) \in SamplesOf(out[c])
    /\ Named(out[c], NameWorkers) = {}

\* ---------------------------------------------------------------- C18

\* The samples, one per group and place: a batch has a metric/label
\* combination twice when two of its groups have a sample of it.
Duplicated(batch) ==
  \E i \in DOMAIN batch : \E j \in DOMAIN batch :
    i < j /\ \E x \in batch[i] : \E y \in batch[j] : x.m = y.m /\ x.l = y.l

\* C18 (as claimed): no cycle emits two samples with the same metric name and
\* the same label values, also when a recognized key is on more than one
\* line of the body.
C18_Original == \A c \in Callers : ~Duplicated(out[c])

\* ---------------------------------------------------------------- C19

\* A step of the Collect call of c.
StepOf(c) ==
  pc'[c] # pc[c] \/ lines'[c] # lines[c] \/ out'[c] # out[c]

\* C19, frame: a step of a call on one exporter leaves the failure counter,
\* cpuload, workers, scoreboard, connections and the mutex of every other
\* exporter as they are.
C19_Frame(c) ==
  StepOf(c) =>
    \A e \in Exporters \ {Target(c)} :
      ExporterState(e)' = ExporterState(e) /\ mutex'[e] = mutex[e]

\* C19, no blocking: a caller in e.Lock() whose own exporter's mutex is free
\* can take it, whoever holds the mutex of another exporter.
C19_NoBlock ==
  \A c \in Callers :
    (pc[c] = "Lock" /\ ~mutex[Target(c)]) => ENABLED Lock(c)

\* C19: cycles of different exporters do not affect each other: a cycle on
\* one exporter changes no state of another and never waits for another's
\* mutex.
C19_Independent == [](C19_NoBlock) /\ [][\A c \in Callers : C19_Frame(c)]_vars

\* C19 witness: a cycle on A and a cycle on B are both inside their loops,
\* each holding its own mutex and having set different workers gauges, while
\* a second caller of A waits for A's mutex.
C19_Witness ==
  /\ pc["g1"] = "Loop" /\ pc["g3"] = "Loop" /\ pc["g2"] = "Lock"
  /\ mutex["A"] /\ mutex["B"]
  /\ workers["B"] # EmptyVec /\ workers["A"] # EmptyVec
  /\ workers["A"] # workers["B"]

====
